---- MODULE Spec2Model ----
(***************************************************************************)
(* Model of the ETL pipeline of src/src/main.py: three delimited files are *)
(* loaded into data frames, cleaned, aggregated and merged, and the three  *)
(* resulting tables are written to a relational store.                     *)
(*                                                                         *)
(* A data frame is a record [loaded, columns, rows]; None is the frame     *)
(* with loaded = FALSE.  A row is a tuple aligned with columns.  A cell is *)
(* <<v>> for a value v and <<>> for a missing value (NaN / NaT / NULL).    *)
(* The renaming of the columns done before a table is written is computed *)
(* on the characters of each name (Spell).                                 *)
(***************************************************************************)
EXTENDS Integers, Sequences, FiniteSets, TLC

\* ------------------------------------------------------------------ bounds
MaxRows == 2
MaxLen == 4

\* ------------------------------------------------------------ column names
SubscriptionID == "Subscription ID"
Plan == "Plan"
Product == "Product"
TransactionID == "Transaction ID"
CustomerID == "Customer ID"
Total == "Total"
DateUTC == "Date (UTC)"
CustomerName == "Customer Name"
CustomerEmail == "Customer Email"
TotalSpending == "Total Spending"
subscription_id == "subscription_id"
plan == "plan"
product == "product"
transaction_id == "transaction_id"
customer_id == "customer_id"
total == "total"
date_utc == "date_utc"
customer_name == "customer_name"
customer_email == "customer_email"
total_spending == "total_spending"

\* The characters of each column name, for the renaming done before a table
\* is written.
Spell ==
    (SubscriptionID :> <<"S", "u", "b", "s", "c", "r", "i", "p", "t", "i", "o", "n", " ", "I", "D">>)
    @@ (Plan :> <<"P", "l", "a", "n">>)
    @@ (Product :> <<"P", "r", "o", "d", "u", "c", "t">>)
    @@ (TransactionID :> <<"T", "r", "a", "n", "s", "a", "c", "t", "i", "o", "n", " ", "I", "D">>)
    @@ (CustomerID :> <<"C", "u", "s", "t", "o", "m", "e", "r", " ", "I", "D">>)
    @@ (Total :> <<"T", "o", "t", "a", "l">>)
    @@ (DateUTC :> <<"D", "a", "t", "e", " ", "(", "U", "T", "C", ")">>)
    @@ (CustomerName :> <<"C", "u", "s", "t", "o", "m", "e", "r", " ", "N", "a", "m", "e">>)
    @@ (CustomerEmail :> <<"C", "u", "s", "t", "o", "m", "e", "r", " ", "E", "m", "a", "i", "l">>)
    @@ (TotalSpending :> <<"T", "o", "t", "a", "l", " ", "S", "p", "e", "n", "d", "i", "n", "g">>)
    @@ (subscription_id :> <<"s", "u", "b", "s", "c", "r", "i", "p", "t", "i", "o", "n", "_", "i", "d">>)
    @@ (plan :> <<"p", "l", "a", "n">>)
    @@ (product :> <<"p", "r", "o", "d", "u", "c", "t">>)
    @@ (transaction_id :> <<"t", "r", "a", "n", "s", "a", "c", "t", "i", "o", "n", "_", "i", "d">>)
    @@ (customer_id :> <<"c", "u", "s", "t", "o", "m", "e", "r", "_", "i", "d">>)
    @@ (total :> <<"t", "o", "t", "a", "l">>)
    @@ (date_utc :> <<"d", "a", "t", "e", "_", "u", "t", "c">>)
    @@ (customer_name :> <<"c", "u", "s", "t", "o", "m", "e", "r", "_", "n", "a", "m", "e">>)
    @@ (customer_email :> <<"c", "u", "s", "t", "o", "m", "e", "r", "_", "e", "m", "a", "i", "l">>)
    @@ (total_spending :> <<"t", "o", "t", "a", "l", "_", "s", "p", "e", "n", "d", "i", "n", "g">>)

\* ------------------------------------------------------------------- cells
Null == <<>>
IsNull(c) == Len(c) = 0
Cell(v) == <<v>>
Val(c) == c[1]

\* ------------------------------------------------------------- data frames
NoneDF == [loaded |-> FALSE, columns |-> <<>>, rows |-> <<>>]
DataFrame(cols, rs) == [loaded |-> TRUE, columns |-> cols, rows |-> rs]

HasColumn(columns, name) == \E i \in 1..Len(columns) : columns[i] = name
ColIndex(columns, name) == CHOOSE i \in 1..Len(columns) : columns[i] = name

Range(s) == {s[i] : i \in 1..Len(s)}

\* ------------------------------------------------------------ load_tsv_file
\* A file is [exists, readable, columns, rows]: it may be missing, or present
\* but rejected by the reader, or present and well formed.
load_tsv_file(file) ==
    IF ~file.exists THEN NoneDF
    ELSE IF ~file.readable THEN NoneDF
    ELSE DataFrame(file.columns, file.rows)

\* ------------------------------------------------------ convert_date_format
\* A raw date is <<month, day, 2-digit year, hour, minute>>; the converted
\* timestamp is <<year, month, day, hour, minute, second>>.  %y maps 69..99 to
\* 1969..1999 and 0..68 to 2000..2068.
ToDatetime(c) ==
    IF IsNull(c) THEN Null
    ELSE LET d == Val(c)
             year == IF d[3] >= 69 THEN 1900 + d[3] ELSE 2000 + d[3]
         IN  Cell(<<year, d[1], d[2], d[4], d[5], 0>>)

convert_date_format(df) ==
    IF HasColumn(df.columns, DateUTC)
    THEN LET k == ColIndex(df.columns, DateUTC)
         IN  [df EXCEPT !.rows =
                [i \in 1..Len(df.rows) |->
                    [df.rows[i] EXCEPT ![k] = ToDatetime(df.rows[i][k])]]]
    ELSE df

\* -------------------------------------------------------- remove_duplicates
\* Variant: keep = 'last'.
RECURSIVE drop_duplicates_keep_last(_)
drop_duplicates_keep_last(rows) ==
    IF Len(rows) = 0 THEN <<>>
    ELSE LET kept == drop_duplicates_keep_last(Tail(rows))
             r == rows[1]
         IN  IF \E i \in 1..Len(kept) : kept[i] = r THEN kept ELSE <<r>> \o kept

\* DataFrame.drop_duplicates(): keep = 'first', all columns, missing = missing.
RECURSIVE drop_duplicates(_)
drop_duplicates(rows) ==
    IF Len(rows) = 0 THEN <<>>
    ELSE LET kept == drop_duplicates(SubSeq(rows, 1, Len(rows) - 1))
             r == rows[Len(rows)]
         IN  IF \E i \in 1..Len(kept) : kept[i] = r THEN kept ELSE Append(kept, r)

remove_duplicates(df) == [df EXCEPT !.rows = drop_duplicates(df.rows)]

\* ------------------------------------------------------------------ groupby
\* groupby(by): the groups are the distinct non-missing keys (dropna = True)
\* in ascending order (sort = True).
RECURSIVE SortAsc(_)
SortAsc(S) ==
    IF S = {} THEN <<>>
    ELSE LET m == CHOOSE x \in S : \A y \in S : x <= y
         IN  <<m>> \o SortAsc(S \ {m})

GroupKeys(rows, k) ==
    SortAsc({Val(rows[i][k]) : i \in {j \in 1..Len(rows) : ~IsNull(rows[j][k])}})

\* GroupBy.last(): the last non-missing entry of the column within the group,
\* missing when the group has none.
GroupLast(rows, k, key, c) ==
    LET idx == {i \in 1..Len(rows) :
                    /\ ~IsNull(rows[i][k])
                    /\ Val(rows[i][k]) = key
                    /\ ~IsNull(rows[i][c])}
    IN  IF idx = {} THEN Null
        ELSE rows[CHOOSE i \in idx : \A j \in idx : j <= i][c]

\* Variant: the group's last Total instead of the sum.
GroupSum_last(rows, k, key, c) ==
    LET v == GroupLast(rows, k, key, c)
    IN  IF IsNull(v) THEN 0 ELSE Val(v)

\* GroupBy.sum(): missing entries are skipped (min_count = 0).
RECURSIVE GroupSum(_, _, _, _)
GroupSum(rows, k, key, c) ==
    IF Len(rows) = 0 THEN 0
    ELSE LET r == rows[Len(rows)]
             rest == GroupSum(SubSeq(rows, 1, Len(rows) - 1), k, key, c)
         IN  IF ~IsNull(r[k]) /\ Val(r[k]) = key /\ ~IsNull(r[c])
             THEN rest + Val(r[c])
             ELSE rest

\* Variant: the users are deduplicated but not grouped.
collapse_users_ungrouped(df) == remove_duplicates(df)

\* The users branch of ingest_data: drop duplicates, then one row per
\* Customer ID with the last name and the last email of the group.
collapse_users(df) ==
    LET d == remove_duplicates(df)
        k == ColIndex(d.columns, CustomerID)
        n == ColIndex(d.columns, CustomerName)
        e == ColIndex(d.columns, CustomerEmail)
        keys == GroupKeys(d.rows, k)
    IN  DataFrame(<<CustomerID, CustomerName, CustomerEmail>>,
            [i \in 1..Len(keys) |->
                <<Cell(keys[i]),
                  GroupLast(d.rows, k, keys[i], n),
                  GroupLast(d.rows, k, keys[i], e)>>])

\* ---------------------------------------- calculate_total_spending_per_user
calculate_total_spending_per_user(df) ==
    LET k == ColIndex(df.columns, CustomerID)
        t == ColIndex(df.columns, Total)
        keys == GroupKeys(df.rows, k)
    IN  DataFrame(<<CustomerID, TotalSpending>>,
            [i \in 1..Len(keys) |->
                <<Cell(keys[i]), Cell(GroupSum(df.rows, k, keys[i], t))>>])

\* ---------------------------------------------- add_total_spending_to_users
\* pd.merge(how = 'left', on = 'Customer ID'): left order is kept; a left row
\* yields one output row per right row with the same key (missing keys match
\* each other), or one row with the right columns missing when none matches.
DropAt(s, k) == [i \in 1..(Len(s) - 1) |-> IF i < k THEN s[i] ELSE s[i + 1]]

RECURSIVE Matches(_, _, _)
Matches(l, rrows, rk) ==
    IF Len(rrows) = 0 THEN <<>>
    ELSE LET r == rrows[1]
             rest == Matches(l, Tail(rrows), rk)
         IN  IF r[rk] = l THEN <<DropAt(r, rk)>> \o rest ELSE rest

RECURSIVE MergeRows(_, _, _, _, _)
MergeRows(lrows, lk, rrows, rk, width) ==
    IF Len(lrows) = 0 THEN <<>>
    ELSE LET l == lrows[1]
             m == Matches(l[lk], rrows, rk)
             out == IF Len(m) = 0
                    THEN <<l \o [i \in 1..width |-> Null]>>
                    ELSE [i \in 1..Len(m) |-> l \o m[i]]
         IN  out \o MergeRows(Tail(lrows), lk, rrows, rk, width)

merge_left(left, right, on) ==
    LET lk == ColIndex(left.columns, on)
        rk == ColIndex(right.columns, on)
    IN  DataFrame(left.columns \o DropAt(right.columns, rk),
                  MergeRows(left.rows, lk, right.rows, rk, Len(right.columns) - 1))

fillna(df, col, v) ==
    LET k == ColIndex(df.columns, col)
    IN  [df EXCEPT !.rows =
            [i \in 1..Len(df.rows) |->
                IF IsNull(df.rows[i][k])
                THEN [df.rows[i] EXCEPT ![k] = Cell(v)]
                ELSE df.rows[i]]]

\* Variant: how = 'inner', users without spending are dropped.
add_total_spending_to_users_inner(users, spending) ==
    LET m == merge_left(users, spending, CustomerID)
        t == ColIndex(m.columns, TotalSpending)
        keep(r) == ~IsNull(r[t])
    IN  [m EXCEPT !.rows = SelectSeq(m.rows, keep)]

add_total_spending_to_users(users, spending) ==
    fillna(merge_left(users, spending, CustomerID), TotalSpending, 0)

\* ------------------------------------------------- standardize_column_names
Upper == <<"A","B","C","D","E","F","G","H","I","J","K","L","M",
           "N","O","P","Q","R","S","T","U","V","W","X","Y","Z">>
Lower == <<"a","b","c","d","e","f","g","h","i","j","k","l","m",
           "n","o","p","q","r","s","t","u","v","w","x","y","z">>

LowerChar(ch) ==
    IF \E i \in 1..Len(Upper) : Upper[i] = ch
    THEN Lower[CHOOSE i \in 1..Len(Upper) : Upper[i] = ch]
    ELSE ch

IsParen(ch) == ch = "(" \/ ch = ")"
NotParen(ch) == ~IsParen(ch)

StandardChars(chars) ==
    LET spaced == [i \in 1..Len(chars) |-> IF chars[i] = " " THEN "_" ELSE chars[i]]
        bare == SelectSeq(spaced, NotParen)
    IN  [i \in 1..Len(bare) |-> LowerChar(bare[i])]

StandardName(name) ==
    LET chars == StandardChars(Spell[name])
    IN  CHOOSE n \in DOMAIN Spell : Spell[n] = chars

standardize_column_names(df) ==
    [df EXCEPT !.columns = [i \in 1..Len(df.columns) |-> StandardName(df.columns[i])]]

\* -------------------------------------------------------------------- store
\* A stored table is [exists, columns, rows, pk]; pk = <<>> when the table has
\* no primary key.
NoTable == [exists |-> FALSE, columns |-> <<>>, rows |-> <<>>, pk |-> <<>>]

TableNames == {"dim_product", "fct_transaction", "dim_user"}

\* Variant: if_exists = 'append'.
to_sql_append(st, df, table_name) ==
    IF st[table_name].exists
    THEN [st EXCEPT ![table_name].rows = st[table_name].rows \o df.rows]
    ELSE [st EXCEPT ![table_name] =
            [exists |-> TRUE, columns |-> df.columns, rows |-> df.rows, pk |-> <<>>]]

\* DataFrame.to_sql(table_name, engine, if_exists = 'replace', index = False):
\* the table is dropped when it exists, with its constraints, and created
\* again from the frame.
to_sql(st, df, table_name) ==
    [st EXCEPT ![table_name] =
        [exists |-> TRUE, columns |-> df.columns, rows |-> df.rows, pk |-> <<>>]]

\* primary_key is a column name, [list |-> FALSE, name |-> n], or a list of
\* column names, [list |-> TRUE, names |-> <<n1, ...>>].
PkColumns(primary_key) ==
    IF primary_key.list THEN primary_key.names ELSE <<primary_key.name>>

\* Variant: only rows that are equal in every column are rejected.
PkRejected_whole_rows(tbl, pk) ==
    \/ \E c \in 1..Len(pk) : ~HasColumn(tbl.columns, pk[c])
    \/ \E i, j \in 1..Len(tbl.rows) : i < j /\ tbl.rows[i] = tbl.rows[j]

\* ALTER TABLE ... ADD PRIMARY KEY (...) is rejected when a key column is not a
\* column of the table, when a key column holds NULL, or when two rows agree on
\* every key column.
PkRejected(tbl, pk) ==
    \/ \E c \in 1..Len(pk) : ~HasColumn(tbl.columns, pk[c])
    \/ LET key(r) == [c \in 1..Len(pk) |-> r[ColIndex(tbl.columns, pk[c])]]
       IN  \/ \E i \in 1..Len(tbl.rows) : \E c \in 1..Len(pk) :
                  IsNull(key(tbl.rows[i])[c])
           \/ \E i, j \in 1..Len(tbl.rows) :
                  i < j /\ key(tbl.rows[i]) = key(tbl.rows[j])

add_primary_key(st, table_name, pk) == [st EXCEPT ![table_name].pk = pk]

\* -------------------------------------------------------------- ingest_data
\* Variant: one absent source makes ingest_data give up on all three.
ingest_data_all_or_nothing(fs) ==
    LET p0 == load_tsv_file(fs.products)
        t0 == load_tsv_file(fs.transactions)
        u0 == load_tsv_file(fs.users)
    IN  IF p0.loaded /\ t0.loaded /\ u0.loaded
        THEN [products     |-> remove_duplicates(p0),
              transactions |-> remove_duplicates(convert_date_format(t0)),
              users        |-> collapse_users(u0)]
        ELSE [products |-> NoneDF, transactions |-> NoneDF, users |-> NoneDF]

ingest_data(fs) ==
    LET p0 == load_tsv_file(fs.products)
        t0 == load_tsv_file(fs.transactions)
        u0 == load_tsv_file(fs.users)
        t1 == IF t0.loaded THEN convert_date_format(t0) ELSE t0
    IN  [products     |-> IF p0.loaded THEN remove_duplicates(p0) ELSE p0,
         transactions |-> IF t1.loaded THEN remove_duplicates(t1) ELSE t1,
         users        |-> IF u0.loaded THEN collapse_users(u0) ELSE u0]

\* ------------------------------------------------------------------ inputs
SeqsUpTo(S, n) == UNION {[1..m -> S] : m \in 0..n}

ProductsCols == <<SubscriptionID, Plan, Product>>
TransactionsCols == <<TransactionID, CustomerID, Total, DateUTC>>
UsersCols == <<CustomerID, CustomerName, CustomerEmail>>

ADate == Cell(<<1, 1, 24, 7, 0>>)

\* Product tables: empty, one row, a repeated row, two rows with the same
\* (Subscription ID, Plan), two rows that differ in Plan only.
ProductBasicA == <<Cell(1), Cell("basic"), Cell("A")>>
ProductBasicB == <<Cell(1), Cell("basic"), Cell("B")>>
ProductProA == <<Cell(1), Cell("pro"), Cell("A")>>
ProductTables ==
    { <<>>,
      <<ProductBasicA>>,
      <<ProductBasicA, ProductBasicA>>,
      <<ProductBasicA, ProductBasicB>>,
      <<ProductBasicA, ProductProA>> }

TransactionRows ==
    { <<Cell(1), Cell(1), Cell(10), ADate>>,
      <<Cell(2), Cell(1), Cell(10), ADate>>,
      <<Cell(2), Cell(3), Cell(0 - 5), ADate>> }

UserRows ==
    { <<Cell(1), Cell("A"), Cell("a@x")>>,
      <<Cell(1), Cell("B"), Cell("b@x")>>,
      <<Cell(3), Cell("C"), Cell("c@x")>> }

MissingFile == [exists |-> FALSE, readable |-> FALSE, columns |-> <<>>, rows |-> <<>>]
BadFile == [exists |-> TRUE, readable |-> FALSE, columns |-> <<>>, rows |-> <<>>]
Files(cols, tables) ==
    {MissingFile, BadFile} \cup
    {[exists |-> TRUE, readable |-> TRUE, columns |-> cols, rows |-> rs] : rs \in tables}

\* What the store may hold before the first run: nothing, or the tables of an
\* earlier load.
OldTable(cols, row, pk) == [exists |-> TRUE, columns |-> cols, rows |-> <<row>>, pk |-> pk]
EmptyStore == [n \in TableNames |-> NoTable]
OldStore ==
    [n \in TableNames |->
        IF n = "dim_product"
        THEN OldTable(<<subscription_id, plan>>, <<Cell(9), Cell("old")>>,
                      <<subscription_id, plan>>)
        ELSE IF n = "fct_transaction"
        THEN OldTable(<<transaction_id>>, <<Cell(9)>>, <<transaction_id>>)
        ELSE OldTable(<<customer_id>>, <<Cell(9)>>, <<customer_id>>)]

\* Inputs on which each function is applied on its own.
SpendingCols == <<CustomerID, Total>>
FnTransactionRows ==
    { <<Cell(1), Cell(100)>>, <<Cell(2), Cell(200)>>, <<Cell(3), Cell(300)>>,
      <<Cell(2), Cell(0 - 50)>>, <<Null, Cell(100)>>, <<Cell(1), Null>> }
FnUserRows ==
    { <<Cell(1), Cell("A"), Cell("a@x")>>,
      <<Cell(1), Cell("B"), Cell("b@x")>>,
      <<Cell(2), Cell("A"), Cell("a@x")>>,
      <<Cell(3), Cell("C"), Cell("c@x")>>,
      <<Null, Cell("A"), Cell("a@x")>> }
AggregateRows == {<<Cell(i), Cell(t)>> : i \in {1, 3}, t \in {100, 200}}
\* A spending aggregate has one row per Customer ID.
Aggregates ==
    {DataFrame(<<CustomerID, TotalSpending>>, rs) : rs \in
        {r \in SeqsUpTo(AggregateRows, 2) :
            \A i, j \in 1..Len(r) : i # j => r[i][1] # r[j][1]}}

\* --------------------------------------------------------------- variables
VARIABLES
    files,                 \* the three input files
    pc,                    \* position in __main__
    products_df, transactions_df, users_df,
    spending_per_user_df, updated_users_df,
    engine,                \* "none", "created" (no connection yet), "connected"
    k,                     \* which of the three save_to_postgres calls
    store,                 \* the database: table name -> stored table
    error,                 \* the exception that ended the run, "" when none
    stages,                \* bootstrap stages that have succeeded in this run
    prior,                 \* the store as it was when this run started
    run,                   \* "first" or "again"
    first_store,           \* the store as the first complete run left it
    fn                     \* one function applied on its own: [op, arg, arg2, out]

vars == <<files, pc, products_df, transactions_df, users_df, spending_per_user_df,
          updated_users_df, engine, k, store, error, stages, prior, run,
          first_store, fn>>

frames == <<products_df, transactions_df, users_df, spending_per_user_df,
            updated_users_df>>

FnIdle == [op |-> "none", arg |-> NoneDF, arg2 |-> NoneDF, out |-> NoneDF]

Init ==
    /\ \E p \in Files(ProductsCols, ProductTables),
          t \in Files(TransactionsCols, SeqsUpTo(TransactionRows, MaxRows)),
          u \in Files(UsersCols, SeqsUpTo(UserRows, MaxRows)) :
          files = [products |-> p, transactions |-> t, users |-> u]
    /\ pc = "ingest"
    /\ products_df = NoneDF /\ transactions_df = NoneDF /\ users_df = NoneDF
    /\ spending_per_user_df = NoneDF /\ updated_users_df = NoneDF
    /\ engine = "none"
    /\ k = 1
    /\ store \in {EmptyStore, OldStore}
    /\ prior = store
    /\ error = ""
    /\ stages = {}
    /\ run = "first"
    /\ first_store = EmptyStore
    /\ fn = FnIdle

\* ----------------------------------------------------------------- __main__
Crash(e) ==
    /\ pc' = "crashed"
    /\ error' = e

\* line 304
Ingest ==
    /\ pc = "ingest"
    /\ LET r == ingest_data(files)
       IN  /\ products_df' = r.products
           /\ transactions_df' = r.transactions
           /\ users_df' = r.users
    /\ pc' = "spending"
    /\ UNCHANGED <<files, spending_per_user_df, updated_users_df, engine, k, store,
                   error, stages, prior, run, first_store, fn>>

\* line 307: None has no groupby
CalculateSpending ==
    /\ pc = "spending"
    /\ IF transactions_df.loaded
       THEN /\ spending_per_user_df' = calculate_total_spending_per_user(transactions_df)
            /\ pc' = "merge"
            /\ UNCHANGED error
       ELSE /\ Crash("AttributeError")
            /\ UNCHANGED spending_per_user_df
    /\ UNCHANGED <<files, products_df, transactions_df, users_df, updated_users_df,
                   engine, k, store, stages, prior, run, first_store, fn>>

\* lines 310-313: pd.merge rejects None; log_example_rows changes nothing
AddSpending ==
    /\ pc = "merge"
    /\ IF users_df.loaded
       THEN /\ updated_users_df' = add_total_spending_to_users(users_df, spending_per_user_df)
            /\ pc' = "engine"
            /\ UNCHANGED error
       ELSE /\ Crash("TypeError")
            /\ UNCHANGED updated_users_df
    /\ UNCHANGED <<files, products_df, transactions_df, users_df, spending_per_user_df,
                   engine, k, store, stages, prior, run, first_store, fn>>

\* Variant: a failed decryption or parse is logged and the run goes on.
GetPostgresEngine_lenient ==
    /\ pc = "engine"
    /\ \E key_ok \in BOOLEAN, config_ok \in BOOLEAN :
          /\ engine' = "created"
          /\ stages' = stages \cup (IF key_ok THEN {"decrypt"} ELSE {})
                              \cup (IF key_ok /\ config_ok THEN {"parse"} ELSE {})
          /\ pc' = "write"
          /\ UNCHANGED error
    /\ UNCHANGED <<files, frames, k, store, prior, run, first_store, fn>>

\* line 316, get_postgres_engine: decrypt the configuration, parse it, create
\* the engine.  create_engine opens no connection: the first statement does.
GetPostgresEngine ==
    /\ pc = "engine"
    /\ \E key_ok \in BOOLEAN, config_ok \in BOOLEAN :
          IF ~key_ok
          THEN /\ Crash("InvalidToken")
               /\ UNCHANGED <<engine, stages>>
          ELSE IF ~config_ok
          THEN /\ Crash("KeyError")
               /\ stages' = stages \cup {"decrypt"}
               /\ UNCHANGED engine
          ELSE /\ engine' = "created"
               /\ stages' = stages \cup {"decrypt", "parse"}
               /\ pc' = "write"
               /\ UNCHANGED error
    /\ UNCHANGED <<files, frames, k, store, prior, run, first_store, fn>>

\* lines 319-321: the three save_to_postgres calls, in this order
TargetDf(i) ==
    IF i = 1 THEN products_df ELSE IF i = 2 THEN transactions_df ELSE updated_users_df
TargetName(i) ==
    IF i = 1 THEN "dim_product" ELSE IF i = 2 THEN "fct_transaction" ELSE "dim_user"
TargetPk(i) ==
    IF i = 1 THEN [list |-> TRUE, names |-> <<subscription_id, plan>>]
    ELSE IF i = 2 THEN [list |-> FALSE, name |-> transaction_id]
    ELSE [list |-> FALSE, name |-> customer_id]

\* save_to_postgres, lines 255-258: rename the columns of the caller's frame in
\* place, then replace the table.  None has no columns.  The statement needs a
\* connection, which the store may refuse.
SaveWrite ==
    /\ pc = "write"
    /\ LET df == TargetDf(k)
           sdf == standardize_column_names(df)
       IN  IF ~df.loaded
           THEN /\ Crash("AttributeError")
                /\ UNCHANGED <<frames, engine, store, stages>>
           ELSE /\ products_df' = IF k = 1 THEN sdf ELSE products_df
                /\ transactions_df' = IF k = 2 THEN sdf ELSE transactions_df
                /\ updated_users_df' = IF k = 3 THEN sdf ELSE updated_users_df
                /\ UNCHANGED <<users_df, spending_per_user_df>>
                /\ \E up \in BOOLEAN :
                      IF up
                      THEN /\ store' = to_sql(store, sdf, TargetName(k))
                           /\ engine' = "connected"
                           /\ stages' = stages \cup {"connect"}
                           /\ pc' = "alter"
                           /\ UNCHANGED error
                      ELSE /\ Crash("OperationalError")
                           /\ UNCHANGED <<engine, store, stages>>
    /\ UNCHANGED <<files, k, prior, run, first_store, fn>>

\* Variant: a rejected primary key undoes the write of the table.
SaveAlter_rollback ==
    /\ pc = "alter"
    /\ \E up \in BOOLEAN :
          IF ~up
          THEN /\ Crash("OperationalError")
               /\ UNCHANGED <<store, k, first_store>>
          ELSE IF PkRejected(store[TargetName(k)], PkColumns(TargetPk(k)))
          THEN /\ Crash("IntegrityError")
               /\ store' = [store EXCEPT ![TargetName(k)] = prior[TargetName(k)]]
               /\ UNCHANGED <<k, first_store>>
          ELSE /\ store' = add_primary_key(store, TargetName(k), PkColumns(TargetPk(k)))
               /\ UNCHANGED error
               /\ IF k < 3
                  THEN /\ k' = k + 1
                       /\ pc' = "write"
                       /\ UNCHANGED first_store
                  ELSE /\ pc' = "done"
                       /\ first_store' = IF run = "first" THEN store' ELSE first_store
                       /\ UNCHANGED k
    /\ UNCHANGED <<files, frames, engine, stages, prior, run, fn>>

\* save_to_postgres, lines 261-272: add the primary key to the written table.
SaveAlter ==
    /\ pc = "alter"
    /\ \E up \in BOOLEAN :
          IF ~up
          THEN /\ Crash("OperationalError")
               /\ UNCHANGED <<store, k, first_store>>
          ELSE IF PkRejected(store[TargetName(k)], PkColumns(TargetPk(k)))
          THEN /\ Crash("IntegrityError")
               /\ UNCHANGED <<store, k, first_store>>
          ELSE /\ store' = add_primary_key(store, TargetName(k), PkColumns(TargetPk(k)))
               /\ UNCHANGED error
               /\ IF k < 3
                  THEN /\ k' = k + 1
                       /\ pc' = "write"
                       /\ UNCHANGED first_store
                  ELSE /\ pc' = "done"
                       /\ first_store' = IF run = "first" THEN store' ELSE first_store
                       /\ UNCHANGED k
    /\ UNCHANGED <<files, frames, engine, stages, prior, run, fn>>

\* The program is started once more on the same files.
Rerun ==
    /\ pc = "done"
    /\ run = "first"
    /\ run' = "again"
    /\ pc' = "ingest"
    /\ products_df' = NoneDF /\ transactions_df' = NoneDF /\ users_df' = NoneDF
    /\ spending_per_user_df' = NoneDF /\ updated_users_df' = NoneDF
    /\ engine' = "none"
    /\ k' = 1
    /\ stages' = {}
    /\ prior' = store
    /\ UNCHANGED <<files, store, error, first_store, fn>>

Next ==
    \/ Ingest
    \/ CalculateSpending
    \/ AddSpending
    \/ GetPostgresEngine
    \/ SaveWrite
    \/ SaveAlter
    \/ Rerun

Spec == Init /\ [][Next]_vars

\* ------------------------------------------------ functions on their own
\* Each function is applied to every table of a bounded set.
AsFile(df) == [exists |-> TRUE, readable |-> TRUE, columns |-> df.columns, rows |-> df.rows]

FnInput(cols, rs, a) ==
    [op |-> "input", arg |-> DataFrame(cols, rs), arg2 |-> a, out |-> NoneDF]

FnInit ==
    /\ \E m \in 0..MaxLen :
          \/ \E rs \in [1..m -> FnUserRows], a \in Aggregates :
                fn = FnInput(UsersCols, rs, a)
          \/ \E rs \in [1..m -> FnTransactionRows] :
                fn = FnInput(SpendingCols, rs, NoneDF)
    /\ files = [products |-> MissingFile, transactions |-> MissingFile, users |-> MissingFile]
    /\ pc = "fn"
    /\ products_df = NoneDF /\ transactions_df = NoneDF /\ users_df = NoneDF
    /\ spending_per_user_df = NoneDF /\ updated_users_df = NoneDF
    /\ engine = "none"
    /\ k = 1
    /\ store = EmptyStore
    /\ prior = EmptyStore
    /\ error = ""
    /\ stages = {}
    /\ run = "first"
    /\ first_store = EmptyStore

FnApply(op, out) ==
    /\ pc = "fn"
    /\ fn.op = "input"
    /\ fn' = [fn EXCEPT !.op = op, !.out = out]
    /\ UNCHANGED <<files, pc, frames, engine, k, store, error, stages, prior, run,
                   first_store>>

FnRemoveDuplicates ==
    FnApply("remove_duplicates", remove_duplicates(fn.arg))

FnIngestUsers ==
    /\ fn.arg.columns = UsersCols
    /\ FnApply("ingest_users",
               ingest_data([products |-> MissingFile, transactions |-> MissingFile,
                            users |-> AsFile(fn.arg)]).users)

FnCalculateSpending ==
    /\ fn.arg.columns = SpendingCols
    /\ FnApply("calculate_total_spending_per_user",
               calculate_total_spending_per_user(fn.arg))

FnAddSpending ==
    /\ fn.arg.columns = UsersCols
    /\ FnApply("add_total_spending_to_users",
               add_total_spending_to_users(fn.arg, fn.arg2))

FnNext ==
    \/ FnRemoveDuplicates
    \/ FnIngestUsers
    \/ FnCalculateSpending
    \/ FnAddSpending

FnSpec == FnInit /\ [][FnNext]_vars

\* ------------------------------------------------------------- properties
NoDuplicateRows(rows) == \A i, j \in 1..Len(rows) : i # j => rows[i] # rows[j]

FileAbsent(f) == ~f.exists \/ ~f.readable

\* The non-missing values of column c.
ColumnValues(rows, c) == {Val(rows[i][c]) : i \in {j \in 1..Len(rows) : ~IsNull(rows[j][c])}}

\* C1: load_tsv_file gives None for a file that is missing or that the reader
\* rejects, and ingest_data returns, for every subset of absent sources, None
\* for the absent ones and the cleaned table for each of the others: products
\* and transactions hold each distinct file row once, transactions carry
\* converted dates, users hold one row per Customer ID.
C1_AbsentSourcesStayLocal ==
    pc = "spending" =>
        /\ products_df.loaded <=> ~FileAbsent(files.products)
        /\ transactions_df.loaded <=> ~FileAbsent(files.transactions)
        /\ users_df.loaded <=> ~FileAbsent(files.users)
        /\ products_df.loaded =>
              /\ products_df.columns = files.products.columns
              /\ Range(products_df.rows) = Range(files.products.rows)
              /\ NoDuplicateRows(products_df.rows)
        /\ transactions_df.loaded =>
              /\ transactions_df.columns = files.transactions.columns
              /\ Len(transactions_df.rows) = Cardinality(Range(files.transactions.rows))
              /\ NoDuplicateRows(transactions_df.rows)
              /\ \A i \in 1..Len(transactions_df.rows) :
                    Val(transactions_df.rows[i][4]) = <<2024, 1, 1, 7, 0, 0>>
        /\ users_df.loaded =>
              /\ users_df.columns = files.users.columns
              /\ ColumnValues(users_df.rows, 1) = ColumnValues(files.users.rows, 1)
              /\ Len(users_df.rows) = Cardinality(ColumnValues(files.users.rows, 1))

C1_Witness ==
    /\ pc = "spending"
    /\ ~files.products.exists
    /\ files.transactions.exists /\ ~files.transactions.readable
    /\ users_df.loaded
    /\ Len(files.users.rows) = 2
    /\ Len(users_df.rows) = 1

\* C2: in a full run, when a source is absent the steps that need it are
\* skipped: the run is never ended by the use of None in place of a table.
C2_AbsentSourceIsSkipped ==
    (\E s \in {"products", "transactions", "users"} : FileAbsent(files[s]))
        => error \notin {"AttributeError", "TypeError"}

\* C3: no table is written or altered before the configuration is decrypted
\* and parsed and a connection is made; a run whose decryption or parsing
\* fails ends with the store as it found it.
C3_NoPersistBeforeBootstrap ==
    /\ store # prior => {"decrypt", "parse", "connect"} \subseteq stages
    /\ error \in {"InvalidToken", "KeyError"} => pc = "crashed" /\ store = prior
    /\ (error = "OperationalError" /\ "connect" \notin stages) =>
          pc = "crashed" /\ store = prior

C3_Witness ==
    /\ pc = "crashed"
    /\ error = "OperationalError"
    /\ "connect" \notin stages
    /\ store = OldStore

\* Two rows of the frame agree on every column of the key.
KeyOf(df, row, cols) == [c \in 1..Len(cols) |-> row[ColIndex(df.columns, cols[c])]]
SharesKey(df, cols) ==
    \E i, j \in 1..Len(df.rows) :
        i # j /\ KeyOf(df, df.rows[i], cols) = KeyOf(df, df.rows[j], cols)

\* The i-th save_to_postgres call of this run has returned.
Returned(i) == pc = "done" \/ (pc \in {"write", "alter"} /\ k > i)

\* C4: save_to_postgres never returns normally for a table in which two rows
\* share the value(s) of the primary-key column(s), single or composite: the
\* call ends in the constraint violation, which ends the run.
C4_DuplicateKeyNeverReturns ==
    /\ \A i \in 1..3 :
          Returned(i) => ~SharesKey(TargetDf(i), PkColumns(TargetPk(i)))
    /\ \A n \in TableNames :
          store[n].pk # <<>> => ~SharesKey(store[n], store[n].pk)
    /\ error = "IntegrityError" =>
          /\ pc = "crashed"
          /\ SharesKey(TargetDf(k), PkColumns(TargetPk(k)))
          /\ store[TargetName(k)].pk = <<>>

C4_Witness ==
    /\ pc = "crashed"
    /\ error = "IntegrityError"
    /\ k = 1
    /\ SharesKey(products_df, <<subscription_id, plan>>)

\* C5: the users table of ingest_data has exactly one row per distinct
\* Customer ID of the input, carrying the Customer Name and Customer Email of
\* the last input row with that Customer ID.
LastRowWith(rows, id) ==
    rows[CHOOSE i \in 1..Len(rows) :
            /\ rows[i][1] = Cell(id)
            /\ \A j \in 1..Len(rows) : rows[j][1] = Cell(id) => j <= i]

C5_LastRowWins ==
    fn.op = "ingest_users" =>
        /\ Len(fn.out.rows) = Cardinality(ColumnValues(fn.arg.rows, 1))
        /\ \A id \in ColumnValues(fn.arg.rows, 1) :
              \E i \in 1..Len(fn.out.rows) : fn.out.rows[i] = LastRowWith(fn.arg.rows, id)

\* C6: add_total_spending_to_users neither duplicates nor drops user rows: the
\* output has one row per user row, in the same order, each extended with the
\* aggregate's Total Spending for its Customer ID, or 0 when the aggregate has
\* none.
SpendingOf(aggregate, id) ==
    IF \E j \in 1..Len(aggregate.rows) : aggregate.rows[j][1] = id
    THEN aggregate.rows[CHOOSE j \in 1..Len(aggregate.rows) : aggregate.rows[j][1] = id][2]
    ELSE Cell(0)

C6_MergeKeepsEveryUser ==
    fn.op = "add_total_spending_to_users" =>
        /\ Len(fn.out.rows) = Len(fn.arg.rows)
        /\ fn.out.columns = <<CustomerID, CustomerName, CustomerEmail, TotalSpending>>
        /\ \A i \in 1..Len(fn.arg.rows) :
              fn.out.rows[i] = Append(fn.arg.rows[i], SpendingOf(fn.arg2, fn.arg.rows[i][1]))

C6_Witness ==
    /\ fn.op = "add_total_spending_to_users"
    /\ Len(fn.arg.rows) = 3
    /\ fn.out.rows[1][4] = Cell(200)
    /\ fn.out.rows[2][4] = Cell(0)
    /\ fn.out.rows[3][4] = Cell(200)

\* C7: calculate_total_spending_per_user returns exactly one row per Customer
\* ID present in its input and no other row; the row's Total Spending is the sum
\* of the Totals of the input rows with that Customer ID (a missing Total adds
\* nothing).  (1,100),(2,200),(2,200),(3,300) gives {1:100, 2:400, 3:300}.
RECURSIVE SumOver(_, _)
SumOver(rows, idx) ==
    IF idx = {} THEN 0
    ELSE LET i == CHOOSE x \in idx : TRUE
         IN  (IF IsNull(rows[i][2]) THEN 0 ELSE Val(rows[i][2])) + SumOver(rows, idx \ {i})

SpendingExample ==
    << <<Cell(1), Cell(100)>>, <<Cell(2), Cell(200)>>,
       <<Cell(2), Cell(200)>>, <<Cell(3), Cell(300)>> >>

C7_OneSumPerCustomer ==
    fn.op = "calculate_total_spending_per_user" =>
        /\ Len(fn.out.rows) = Cardinality(ColumnValues(fn.arg.rows, 1))
        /\ \A i \in 1..Len(fn.out.rows) :
              /\ Val(fn.out.rows[i][1]) \in ColumnValues(fn.arg.rows, 1)
              /\ fn.out.rows[i][2] =
                    Cell(SumOver(fn.arg.rows,
                                 {j \in 1..Len(fn.arg.rows) : fn.arg.rows[j][1] = fn.out.rows[i][1]}))
        /\ NoDuplicateRows([i \in 1..Len(fn.out.rows) |-> fn.out.rows[i][1]])
        /\ fn.arg.rows = SpendingExample =>
              fn.out.rows = << <<Cell(1), Cell(100)>>, <<Cell(2), Cell(400)>>,
                               <<Cell(3), Cell(300)>> >>

C7_Witness ==
    /\ fn.op = "calculate_total_spending_per_user"
    /\ fn.arg.rows = SpendingExample
    /\ Len(fn.out.rows) = 3

\* C8: remove_duplicates keeps each distinct row exactly once, at the place of
\* its first occurrence: no two output rows are equal, the output rows are the
\* input rows, the output is no longer than the input, the survivors are in
\* first-occurrence order, and removing duplicates again changes nothing.
FirstIndex(rows, r) ==
    CHOOSE i \in 1..Len(rows) : rows[i] = r /\ \A j \in 1..(i - 1) : rows[j] # r

C8_FirstOccurrenceKept ==
    fn.op = "remove_duplicates" =>
        /\ NoDuplicateRows(fn.out.rows)
        /\ Range(fn.out.rows) = Range(fn.arg.rows)
        /\ Len(fn.out.rows) <= Len(fn.arg.rows)
        /\ fn.out.columns = fn.arg.columns
        /\ \A a, b \in 1..Len(fn.out.rows) :
              a < b => FirstIndex(fn.arg.rows, fn.out.rows[a]) < FirstIndex(fn.arg.rows, fn.out.rows[b])
        /\ remove_duplicates(fn.out) = fn.out

C8_Witness ==
    /\ fn.op = "remove_duplicates"
    /\ Len(fn.arg.rows) = 3
    /\ fn.arg.rows[1] = fn.arg.rows[3]
    /\ Len(fn.out.rows) = 2

\* The Totals of the transactions of the input file that carry Customer ID id.
TotalsOf(id) ==
    {Val(files.transactions.rows[i][3]) :
        i \in {j \in 1..Len(files.transactions.rows) :
                  files.transactions.rows[j][2] = id}}

UniqueCustomerID(df) ==
    \A i, j \in 1..Len(df.rows) : i # j => df.rows[i][1] # df.rows[j][1]

\* C9 as stated: in the final users table Customer ID is unique and every
\* Total Spending is >= 0, and 0 for a user without transactions.
C9_SpendingNeverNegative ==
    updated_users_df.loaded =>
        /\ UniqueCustomerID(updated_users_df)
        /\ \A i \in 1..Len(updated_users_df.rows) :
              /\ Val(updated_users_df.rows[i][4]) >= 0
              /\ TotalsOf(updated_users_df.rows[i][1]) = {} =>
                    updated_users_df.rows[i][4] = Cell(0)

\* C9 as amended: in the final users table Customer ID is unique, Total
\* Spending is 0 for a user without transactions, and it is >= 0 for a user
\* none of whose transactions has a negative Total.
C9_SpendingOfUniqueUsers ==
    updated_users_df.loaded =>
        /\ UniqueCustomerID(updated_users_df)
        /\ \A i \in 1..Len(updated_users_df.rows) :
              /\ ~IsNull(updated_users_df.rows[i][1])
              /\ TotalsOf(updated_users_df.rows[i][1]) = {} =>
                    updated_users_df.rows[i][4] = Cell(0)
              /\ (\A t \in TotalsOf(updated_users_df.rows[i][1]) : t >= 0) =>
                    Val(updated_users_df.rows[i][4]) >= 0

C9_Witness ==
    /\ pc = "engine"
    /\ Len(updated_users_df.rows) = 2
    /\ updated_users_df.rows[1][4] = Cell(20)
    /\ updated_users_df.rows[2][4] = Cell(0)

\* C10: a table that save_to_postgres has written holds exactly the rows and
\* columns of the frame it was given, whatever the table held before; a second
\* run on the same files that reaches its end leaves the store as the first run
\* left it, and no constraint stops it.
Written(i) == Returned(i) \/ (pc = "alter" /\ k = i)

C10_FullOverwrite ==
    /\ \A i \in 1..3 :
          Written(i) =>
              /\ store[TargetName(i)].exists
              /\ store[TargetName(i)].rows = TargetDf(i).rows
              /\ store[TargetName(i)].columns = TargetDf(i).columns
    /\ (run = "again" /\ pc = "done") => store = first_store
    /\ run = "again" => error \in {"", "InvalidToken", "KeyError", "OperationalError"}

C10_Witness ==
    /\ run = "again"
    /\ pc = "done"
    /\ Len(store["fct_transaction"].rows) = 2
    /\ Len(store["dim_product"].rows) = 2
    /\ store["dim_user"].pk = <<customer_id>>

\* The table that save_to_postgres leaves for the frame df: written, and keyed
\* by pk (<<>> when the key was not added).
TableOf(df, pk) == [exists |-> TRUE, columns |-> df.columns, rows |-> df.rows, pk |-> pk]

\* C11: the tables are persisted in the order dim_product, fct_transaction,
\* dim_user, each written and then keyed, with nothing undone on failure: when
\* the persist of the k-th table fails, every table before it holds this run's
\* rows with its primary key, every table after it is as it was when the run
\* started, and, when the failure is at the primary-key step, the k-th table
\* holds this run's rows without a primary key.
C11_PartialPersist ==
    [][(pc \in {"write", "alter"} /\ pc' = "crashed") =>
          /\ k' = k
          /\ \A i \in 1..3 :
                /\ i < k => store'[TargetName(i)] =
                                TableOf(TargetDf(i)', PkColumns(TargetPk(i)))
                /\ i > k => store'[TargetName(i)] = prior'[TargetName(i)]
          /\ pc = "alter" => store'[TargetName(k)] = TableOf(TargetDf(k)', <<>>)]_vars

C11_Witness ==
    /\ pc = "crashed"
    /\ error = "IntegrityError"
    /\ k = 2
    /\ prior = OldStore
    /\ store["dim_product"] = TableOf(products_df, <<subscription_id, plan>>)
    /\ Len(store["dim_product"].rows) = 2
    /\ store["fct_transaction"] = TableOf(transactions_df, <<>>)
    /\ Len(store["fct_transaction"].rows) = 2
    /\ store["dim_user"] = OldStore["dim_user"]

====
